---- MODULE Spec2Model ----
(***************************************************************************)
(* Model of src/main.rs: the XorShift32 generator, the per-row seed        *)
(* scheduling and the row-parallel fill of generate_random_pixels, the     *)
(* two pixel encoders, and the dimension guard of main.                    *)
(*                                                                         *)
(* A u32 is the pair <<hi, lo>> of its two 16-bit halves (value            *)
(* hi * 2^16 + lo), so that every intermediate result of the 32-bit        *)
(* arithmetic stays below 2^31.                                            *)
(***************************************************************************)
EXTENDS FiniteSets, Integers, Sequences, TLC

(***************************************************************************)
(* Bounds of the model.                                                    *)
(***************************************************************************)
MaxWidth == 4
MaxHeight == 2
MaxSteps == 4

(***************************************************************************)
(* u32 arithmetic.                                                         *)
(***************************************************************************)
Half == 2 ^ 16

Pow2(k) == 2 ^ k

U32(hi, lo) == <<hi, lo>>

Zero32 == U32(0, 0)

\* XOR of two 16-bit halves, bit by bit.
RECURSIVE Xor16(_, _)
Xor16(a, b) ==
    IF a = 0 THEN b
    ELSE IF b = 0 THEN a
    ELSE (((a % 2) + (b % 2)) % 2) + 2 * Xor16(a \div 2, b \div 2)

\* a ^ b on u32
Xor(a, b) == U32(Xor16(a[1], b[1]), Xor16(a[2], b[2]))

\* a << k on u32, 0 < k < 32: the bits shifted past bit 31 are dropped
Shl(a, k) ==
    IF k < 16
    THEN U32((a[1] % Pow2(16 - k)) * Pow2(k) + a[2] \div Pow2(16 - k),
             (a[2] % Pow2(16 - k)) * Pow2(k))
    ELSE U32((a[2] % Pow2(32 - k)) * Pow2(k - 16), 0)

\* a >> k on u32, 0 < k < 32: logical shift, zeros come in at the top
Shr(a, k) ==
    IF k < 16
    THEN U32(a[1] \div Pow2(k),
             (a[1] % Pow2(k)) * Pow2(16 - k) + a[2] \div Pow2(k))
    ELSE U32(0, a[1] \div Pow2(k - 16))

\* The full 32-bit product of two 16-bit halves, as a u32.
Mul16(a, b) ==
    LET p1 == (a \div 256) * b
        p0 == (a % 256) * b
        low == (p1 % 256) * 256 + p0
    IN U32(p1 \div 256 + low \div Half, low % Half)

\* u32::wrapping_mul
WrappingMul(a, b) ==
    LET ll == Mul16(a[2], b[2])
        hl == Mul16(a[1], b[2])
        lh == Mul16(a[2], b[1])
    IN U32((ll[1] + hl[2] + lh[2]) % Half, ll[2])

\* u32::wrapping_add
WrappingAdd(a, b) ==
    LET lo == a[2] + b[2]
    IN U32((a[1] + b[1] + lo \div Half) % Half, lo % Half)

\* a guard that multiplies with wraparound and never reports an overflow
CheckedMulWrapping(a, b) == <<TRUE, WrappingMul(a, b)>>

\* u32::checked_mul: <<TRUE, product>> when the product fits 32 bits,
\* <<FALSE, Zero32>> (None) when it does not.
CheckedMul(a, b) ==
    LET ll == Mul16(a[2], b[2])
        hl == Mul16(a[1], b[2])
        lh == Mul16(a[2], b[1])
        hi == ll[1] + hl[2] + lh[2]
        fits == /\ (a[1] = 0 \/ b[1] = 0)
                /\ hl[1] = 0
                /\ lh[1] = 0
                /\ hi < Half
    IN IF fits THEN <<TRUE, U32(hi, ll[2])>> ELSE <<FALSE, Zero32>>

\* num % 256 on u32
Rem256(a) == U32(0, a[2] % 256)

\* `as u8`: truncation to the low 8 bits
AsU8(a) == a[2] % 256

\* `as usize` (64-bit): the value itself
AsUsize(a) == a[1] * Half + a[2]

(***************************************************************************)
(* XorShift32 (a generator is its field x).                                *)
(***************************************************************************)
XorShift32_new(x) == x

\* next() with the second shift by 15 instead of 17
XorShift32_next_shr15(x) ==
    LET x1 == Xor(x, Shl(x, 13))
        x2 == Xor(x1, Shr(x1, 15))
        x3 == Xor(x2, Shl(x2, 5))
    IN x3

\* next() with the first shift dropped: x ^= x
XorShift32_next_noshift(x) ==
    LET x1 == Xor(x, x)
        x2 == Xor(x1, Shr(x1, 17))
        x3 == Xor(x2, Shl(x2, 5))
    IN x3

\* XorShift32::next: the state after the call, which is also the value returned
XorShift32_next(x) ==
    LET x1 == Xor(x, Shl(x, 13))
        x2 == Xor(x1, Shr(x1, 17))
        x3 == Xor(x2, Shl(x2, 5))
    IN x3

\* XorShift32::step_forward: `for _ in 0..steps { self.next(); }`, next() applied
\* steps times in a row.  The iterations are evaluated in two halves, and the test
\* half = half makes the first half's result a value before the second half starts,
\* which keeps the evaluation shallow for steps = 100.
RECURSIVE step_forward(_, _)
step_forward(self, steps) ==
    IF steps = 0 THEN self
    ELSE IF steps = 1 THEN XorShift32_next(self)
    ELSE LET half == step_forward(self, steps \div 2)
         IN IF half = half THEN step_forward(half, steps - steps \div 2) ELSE half

(***************************************************************************)
(* Pixel encoders; a pixel Rgb([r, g, b]) is <<r, g, b>>.                  *)
(***************************************************************************)
Rgb(r, g, b) == <<r, g, b>>

\* the grayscale arm building its channels as the colorful arm does
pixel_grayscale_as_colorful(num) ==
    Rgb(AsU8(Shr(Shl(num, 24), 24)), AsU8(Shr(Shl(num, 16), 24)),
        AsU8(Shr(Shl(num, 8), 24)))

pixel_grayscale(num) ==
    LET clamped == Rem256(num)
    IN Rgb(AsU8(clamped), AsU8(clamped), AsU8(clamped))

\* the green channel shifted back by 16 instead of 24
pixel_colorful_g16(num) ==
    LET r == Shr(Shl(num, 24), 24)
        g == Shr(Shl(num, 16), 16)
        b == Shr(Shl(num, 8), 24)
    IN Rgb(AsU8(r), AsU8(g), AsU8(b))

pixel_colorful(num) ==
    LET r == Shr(Shl(num, 24), 24)
        g == Shr(Shl(num, 16), 24)
        b == Shr(Shl(num, 8), 24)
    IN Rgb(AsU8(r), AsU8(g), AsU8(b))

Encode(mode, num) ==
    IF mode = "Grayscale" THEN pixel_grayscale(num) ELSE pixel_colorful(num)

(***************************************************************************)
(* The literals of generate_random_pixels.                                 *)
(***************************************************************************)
MasterMul == U32(57005, 48879)      \* 0xDEADBEEF
MasterAdd == U32(51966, 47806)      \* 0xCAFEBABE
RowMul == U32(19725, 62663)         \* 0x4d0df4c7
RowAdd == U32(35200, 43819)         \* 0x8980ab2b
WarmupSteps == 100

(***************************************************************************)
(* Inputs of the model.                                                    *)
(***************************************************************************)
\* 42, the seed whose master generator is constructed from 0 (0xC2656EDE), and the
\* seed whose row 0 generator is constructed from 0 (0xE59AB4D1)
Seeds == {U32(0, 42), U32(49765, 28382), U32(58778, 46289)}

Modes == {"Grayscale", "Colorful"}

\* <<width, height>>: the small images, and dimensions at the edge of u32
Dims ==
    {<<U32(0, w), U32(0, h)>> : w \in 0..MaxWidth, h \in 0..MaxHeight}
    \cup {<<U32(65535, 65535), U32(0, 2)>>,     \* 0xFFFFFFFF x 2
          <<U32(1, 0), U32(1, 0)>>,             \* 65536 x 65536
          <<U32(1, 0), U32(0, 0)>>}             \* 65536 x 0

\* The program is executed this many times on the same inputs.
Runs == {1, 2}

VARIABLES
    seed, width, height, genmode,       \* what main read from the operator
    run, first_rows,                    \* which execution this is; the buffer of the first
    pc,                                 \* where the execution is
    master_rng,                         \* generate_random_pixels: master_rng
    sf_self, steps_left,                \* step_forward's self, and its iterations left
    rngs, row_seeds,                    \* rngs; the value each row generator was made from
    rows,                               \* the pixel buffer
    rng, pos, num,                      \* per row task: its rng, its place in the row, num
    writers,                            \* per slot: the tasks that wrote it, in order
    raw_pixels,                         \* convert_pixels_to_image_buffer: raw_pixels
    gen0, gen, calls, ret,              \* a generator under test, driven by next()
    fwd, fwd_steps,                     \* a copy of it, driven by step_forward()
    raw_a, raw_b, px_a, px_b            \* two raw values and their colorful pixels

inputs == <<seed, width, height, genmode>>
sched == <<master_rng, sf_self, steps_left, rngs, row_seeds>>
fill == <<rows, rng, pos, num, writers>>
genunit == <<gen0, gen, calls, ret, fwd, fwd_steps>>
pixunit == <<raw_a, raw_b, px_a, px_b>>
vars == <<inputs, run, first_rows, pc, sched, fill, raw_pixels, genunit, pixunit>>

NoGen == <<>>
NoPixel == <<>>

\* The state of one execution before main has done anything.
Fresh ==
    /\ pc = "main"
    /\ master_rng = NoGen
    /\ sf_self = NoGen
    /\ steps_left = 0
    /\ rngs = <<>>
    /\ row_seeds = <<>>
    /\ rows = <<>>
    /\ rng = <<>>
    /\ pos = <<>>
    /\ num = <<>>
    /\ writers = <<>>
    /\ raw_pixels = <<>>

\* No execution of main: the state the unit specifications keep fixed.
RunIdle ==
    /\ seed = Zero32
    /\ width = Zero32
    /\ height = Zero32
    /\ genmode = "Grayscale"
    /\ run = 1
    /\ first_rows = <<>>
    /\ Fresh

GenUnitIdle ==
    /\ gen0 = Zero32
    /\ gen = Zero32
    /\ calls = 0
    /\ ret = NoGen
    /\ fwd = Zero32
    /\ fwd_steps = 0

PixUnitIdle ==
    /\ raw_a = Zero32
    /\ raw_b = Zero32
    /\ px_a = NoPixel
    /\ px_b = NoPixel

Init ==
    /\ seed \in Seeds
    /\ genmode \in Modes
    /\ \E d \in Dims : width = d[1] /\ height = d[2]
    /\ run = 1
    /\ first_rows = <<>>
    /\ Fresh
    /\ GenUnitIdle
    /\ PixUnitIdle

(***************************************************************************)
(* main: the dimension guard.                                              *)
(***************************************************************************)
CheckDims ==
    /\ pc = "main"
    /\ pc' = IF CheckedMul(width, height)[1] THEN "generate" ELSE "rejected"
    /\ UNCHANGED <<inputs, run, first_rows, sched, fill, raw_pixels, genunit, pixunit>>

(***************************************************************************)
(* generate_random_pixels: the seed scheduling.                            *)
(***************************************************************************)
MasterSeed(s) == WrappingAdd(WrappingMul(s, MasterMul), MasterAdd)

\* the row seed mixed with the master's pair of literals
RowSeedMasterLiterals(d) == WrappingAdd(WrappingMul(d, MasterMul), MasterAdd)

RowSeed(d) == WrappingAdd(WrappingMul(d, RowMul), RowAdd)

\* XorShift32::new(seed.wrapping_mul(..).wrapping_add(..)), entering step_forward(100)
NewMaster ==
    /\ pc = "generate"
    /\ sf_self' = XorShift32_new(MasterSeed(seed))
    /\ steps_left' = WarmupSteps
    /\ pc' = "step_master"
    /\ UNCHANGED <<inputs, run, first_rows, master_rng, rngs, row_seeds, fill,
                   raw_pixels, genunit, pixunit>>

\* one iteration of step_forward's loop
StepForwardIter ==
    /\ pc \in {"step_master", "step_row"}
    /\ steps_left > 0
    /\ sf_self' = XorShift32_next(sf_self)
    /\ steps_left' = steps_left - 1
    /\ UNCHANGED <<inputs, run, first_rows, pc, master_rng, rngs, row_seeds, fill,
                   raw_pixels, genunit, pixunit>>

\* step_forward returns: `let mut master_rng = ...`
MasterReady ==
    /\ pc = "step_master"
    /\ steps_left = 0
    /\ master_rng' = sf_self
    /\ sf_self' = NoGen
    /\ pc' = "schedule"
    /\ UNCHANGED <<inputs, run, first_rows, steps_left, rngs, row_seeds, fill,
                   raw_pixels, genunit, pixunit>>

\* the closure of (0..height).map for the next row: one draw from the master,
\* the row generator made from it, entering step_forward(100)
ScheduleRow ==
    /\ pc = "schedule"
    /\ Len(rngs) < AsUsize(height)
    /\ LET d == XorShift32_next(master_rng)
       IN /\ master_rng' = d
          /\ sf_self' = XorShift32_new(RowSeed(d))
          /\ row_seeds' = Append(row_seeds, RowSeed(d))
    /\ steps_left' = WarmupSteps
    /\ pc' = "step_row"
    /\ UNCHANGED <<inputs, run, first_rows, rngs, fill, raw_pixels, genunit, pixunit>>

\* step_forward returns: the closure's value is collected into rngs
RowReady ==
    /\ pc = "step_row"
    /\ steps_left = 0
    /\ rngs' = Append(rngs, sf_self)
    /\ sf_self' = NoGen
    /\ pc' = "schedule"
    /\ UNCHANGED <<inputs, run, first_rows, master_rng, steps_left, row_seeds, fill,
                   raw_pixels, genunit, pixunit>>

(***************************************************************************)
(* generate_random_pixels: the buffer and its row-parallel fill.           *)
(***************************************************************************)
\* vec![Rgb([0, 0, 0]); (width * height) as usize]
Allocate ==
    /\ pc = "schedule"
    /\ Len(rngs) = AsUsize(height)
    /\ LET len == AsUsize(WrappingMul(width, height))
       IN /\ rows' = [s \in 1..len |-> Rgb(0, 0, 0)]
          /\ writers' = [s \in 0..(len - 1) |-> <<>>]
    /\ pc' = "allocated"
    /\ UNCHANGED <<inputs, run, first_rows, sched, rng, pos, num, raw_pixels,
                   genunit, pixunit>>

Min(a, b) == IF a <= b THEN a ELSE b

\* chunks that start one slot apart instead of one row apart
ChunkSlotStrideOne(i, k) == i + k

\* The slot of the buffer that is element k of chunk i of par_chunks_exact_mut.
ChunkSlot(i, k) == i * AsUsize(width) + k

\* every row task drawing from one shared generator
TaskRngShared(i) == 0

\* The generator a row task draws from: its own, moved into its closure by zip.
TaskRng(i) == i

\* rows.par_chunks_exact_mut(width as usize).zip(rngs): rayon asserts that the
\* chunk size is not zero; the tasks are the pairs (chunk i, rngs[i]).
StartFill ==
    /\ pc = "allocated"
    /\ IF AsUsize(width) = 0
       THEN /\ pc' = "panicked"
            /\ UNCHANGED <<rng, pos, num>>
       ELSE LET n == Min(Len(rows) \div AsUsize(width), Len(rngs))
            IN /\ rng' = [i \in 0..(n - 1) |-> rngs[i + 1]]
               /\ pos' = [i \in 0..(n - 1) |-> 0]
               /\ num' = [i \in 0..(n - 1) |-> NoGen]
               /\ pc' = "fill"
    /\ UNCHANGED <<inputs, run, first_rows, sched, rows, writers, raw_pixels,
                   genunit, pixunit>>

\* one iteration of `for pixel in row` in the task of row i
FillPixel(i) ==
    /\ pc = "fill"
    /\ pos[i] < AsUsize(width)
    /\ LET drawn == XorShift32_next(rng[TaskRng(i)])
           slot == ChunkSlot(i, pos[i])
       IN /\ rng' = [rng EXCEPT ![TaskRng(i)] = drawn]
          /\ num' = [num EXCEPT ![i] = drawn]
          /\ rows' = [rows EXCEPT ![slot + 1] = Encode(genmode, drawn)]
          /\ writers' = [writers EXCEPT ![slot] = Append(@, i)]
    /\ pos' = [pos EXCEPT ![i] = @ + 1]
    /\ UNCHANGED <<inputs, run, first_rows, pc, sched, raw_pixels, genunit, pixunit>>

\* for_each returns when every task has finished; generate_random_pixels returns rows
ReturnRows ==
    /\ pc = "fill"
    /\ \A i \in DOMAIN pos : pos[i] = AsUsize(width)
    /\ pc' = "returned"
    /\ UNCHANGED <<inputs, run, first_rows, sched, fill, raw_pixels, genunit, pixunit>>

(***************************************************************************)
(* convert_pixels_to_image_buffer.                                         *)
(***************************************************************************)
\* rows.into_iter().flat_map(|pixel| pixel.0).collect()
RECURSIVE Flatten(_)
Flatten(pixels) ==
    IF pixels = <<>> THEN <<>> ELSE Head(pixels) \o Flatten(Tail(pixels))

\* ImageBuffer::from_raw gives None when the container is shorter than
\* width * height * 3 bytes.
Convert ==
    /\ pc = "returned"
    /\ raw_pixels' = Flatten(rows)
    /\ pc' = IF Len(raw_pixels') >= AsUsize(width) * AsUsize(height) * 3
             THEN "converted" ELSE "shape_error"
    /\ UNCHANGED <<inputs, run, first_rows, sched, fill, genunit, pixunit>>

(***************************************************************************)
(* The program is started again on the same inputs.                        *)
(***************************************************************************)
Rerun ==
    /\ pc \in {"rejected", "panicked", "converted", "shape_error"}
    /\ run + 1 \in Runs
    /\ run' = run + 1
    /\ first_rows' = rows
    /\ pc' = "main"
    /\ master_rng' = NoGen
    /\ sf_self' = NoGen
    /\ steps_left' = 0
    /\ rngs' = <<>>
    /\ row_seeds' = <<>>
    /\ rows' = <<>>
    /\ rng' = <<>>
    /\ pos' = <<>>
    /\ num' = <<>>
    /\ writers' = <<>>
    /\ raw_pixels' = <<>>
    /\ UNCHANGED <<inputs, genunit, pixunit>>

Next ==
    \/ CheckDims
    \/ NewMaster
    \/ StepForwardIter
    \/ MasterReady
    \/ ScheduleRow
    \/ RowReady
    \/ Allocate
    \/ StartFill
    \/ \E i \in DOMAIN pos : FillPixel(i)
    \/ ReturnRows
    \/ Convert
    \/ Rerun

Spec == Init /\ [][Next]_vars

(***************************************************************************)
(* XorShift32 on its own: one generator driven by next(), a copy of it     *)
(* driven by step_forward().                                               *)
(***************************************************************************)
\* 1, 0, 0xFFFFFFFF, 0x80000000, 0x12345678, 0xDEADBEEF, 42, 0x00010000
GenSamples ==
    {U32(0, 1), U32(0, 0), U32(65535, 65535), U32(32768, 0), U32(4660, 22136),
     U32(57005, 48879), U32(0, 42), U32(1, 0)}

GenInit ==
    /\ gen0 \in GenSamples
    /\ gen = XorShift32_new(gen0)
    /\ calls = 0
    /\ ret = NoGen
    /\ fwd = XorShift32_new(gen0)
    /\ fwd_steps = 0
    /\ RunIdle
    /\ PixUnitIdle

\* let v = gen.next();
CallNext ==
    /\ calls < MaxSteps
    /\ gen' = XorShift32_next(gen)
    /\ ret' = XorShift32_next(gen)
    /\ calls' = calls + 1
    /\ UNCHANGED <<inputs, run, first_rows, pc, sched, fill, raw_pixels, gen0, fwd,
                   fwd_steps, pixunit>>

\* fwd = fwd.step_forward(n);
CallStepForward(n) ==
    /\ fwd_steps + n <= MaxSteps
    /\ fwd' = step_forward(fwd, n)
    /\ fwd_steps' = fwd_steps + n
    /\ UNCHANGED <<inputs, run, first_rows, pc, sched, fill, raw_pixels, gen0, gen,
                   calls, ret, pixunit>>

GenNext ==
    \/ CallNext
    \/ \E n \in 0..MaxSteps : CallStepForward(n)

GenSpec == GenInit /\ [][GenNext]_vars

(***************************************************************************)
(* pixel_colorful on its own, applied to two raw values.                   *)
(***************************************************************************)
\* 0x12345678, 0xFF345678, 0, 0xFFFFFFFF, 0x00FF00FF, 0x80FF00FF, 0x0000FF00,
\* 0x01000000
RawSamples ==
    {U32(4660, 22136), U32(65332, 22136), U32(0, 0), U32(65535, 65535),
     U32(255, 255), U32(33023, 255), U32(0, 65280), U32(256, 0)}

PixInit ==
    /\ raw_a \in RawSamples
    /\ raw_b \in RawSamples
    /\ px_a = NoPixel
    /\ px_b = NoPixel
    /\ RunIdle
    /\ GenUnitIdle

ColorfulA ==
    /\ px_a = NoPixel
    /\ px_a' = pixel_colorful(raw_a)
    /\ UNCHANGED <<inputs, run, first_rows, pc, sched, fill, raw_pixels, genunit,
                   raw_a, raw_b, px_b>>

ColorfulB ==
    /\ px_b = NoPixel
    /\ px_b' = pixel_colorful(raw_b)
    /\ UNCHANGED <<inputs, run, first_rows, pc, sched, fill, raw_pixels, genunit,
                   raw_a, raw_b, px_a>>

PixNext == ColorfulA \/ ColorfulB

PixSpec == PixInit /\ [][PixNext]_vars

(***************************************************************************)
(* Properties.                                                             *)
(***************************************************************************)
W == AsUsize(width)
H == AsUsize(height)

Filling == pc \in {"fill", "returned"}

\* C1 (determinism): the buffer the second execution returns is, entry for entry
\* and channel for channel, the buffer the first execution returned on the same
\* seed, width, height and mode, whatever the two worker schedules were.
C1_Determinism ==
    (run = 2 /\ pc = "returned") => rows = first_rows

C1_Witness ==
    /\ run = 2
    /\ pc = "returned"
    /\ W >= 2
    /\ H = 2
    /\ rows = first_rows
    /\ rows[1] # Rgb(0, 0, 0)

\* C2 (row independence): at every moment of the fill, whatever the other row
\* tasks have done so far, the entries row task i has written are the encoded
\* successive draws of the generator bound to segment i; so the returned buffer
\* is the same for every order and interleaving of the row tasks.
C2_RowIndependence ==
    Filling =>
        \A i \in DOMAIN pos : \A k \in 0..(pos[i] - 1) :
            rows[i * W + k + 1] = Encode(genmode, step_forward(rngs[i + 1], k + 1))

\* the last row is filled completely before the first row is started
C2_Witness ==
    /\ pc = "fill"
    /\ H = 2
    /\ W >= 2
    /\ pos[0] = 0
    /\ pos[1] = W
    /\ \A k \in 0..(W - 1) :
           rows[W + k + 1] = Encode(genmode, step_forward(rngs[2], k + 1))

\* C3 (coverage and disjoint ownership): from allocation to handoff the buffer
\* has exactly width x height slots; during the fill no slot is written twice,
\* slot i*width+k is written only by the task of row i, a slot is written as
\* soon as its row task has passed it; at return every slot was written once.
C3_CoverageDisjoint ==
    /\ pc \in {"allocated", "fill", "returned", "converted", "panicked"} =>
           /\ Len(rows) = W * H
           /\ DOMAIN writers = 0..(W * H - 1)
    /\ Filling =>
           /\ DOMAIN pos = 0..(H - 1)
           /\ \A s \in DOMAIN writers :
                  /\ Len(writers[s]) = IF s % W < pos[s \div W] THEN 1 ELSE 0
                  /\ \A j \in DOMAIN writers[s] : writers[s][j] = s \div W
    /\ pc = "returned" => \A s \in DOMAIN writers : Len(writers[s]) = 1

C3_Witness ==
    /\ pc = "returned"
    /\ W >= 2
    /\ H = 2
    /\ \A s \in 0..(W * H - 1) : writers[s] = <<s \div W>>

\* C4 (row-major layout and generator binding): in the returned buffer entry
\* i*width+k is the encoding of the (k+1)-th draw of row generator i, which is
\* XorShift32 seeded with d_i * 0x4d0df4c7 + 0x8980ab2b (mod 2^32) and advanced
\* 100 steps, d_i being the (i+1)-th draw of the master generator, which is
\* XorShift32 seeded with seed * 0xDEADBEEF + 0xCAFEBABE (mod 2^32) and advanced
\* 100 steps.
C4_RowMajorBinding ==
    pc = "returned" =>
        LET m0 == step_forward(
                      WrappingAdd(WrappingMul(seed, U32(57005, 48879)),
                                  U32(51966, 47806)), 100)
        IN /\ Len(rows) = W * H
           /\ \A i \in 0..(H - 1) :
                  LET d == step_forward(m0, i + 1)
                      g == step_forward(
                               WrappingAdd(WrappingMul(d, U32(19725, 62663)),
                                           U32(35200, 43819)), 100)
                  IN \A k \in 0..(W - 1) :
                         rows[i * W + k + 1] = Encode(genmode, step_forward(g, k + 1))

\* seed 42, width 4, height 2, Grayscale: the eight intensities of the two rows
C4_Witness ==
    /\ pc = "returned"
    /\ seed = U32(0, 42)
    /\ width = U32(0, 4)
    /\ height = U32(0, 2)
    /\ genmode = "Grayscale"
    /\ rngs = <<U32(1015, 22446), U32(7711, 44869)>>
    /\ rows = <<Rgb(207, 207, 207), Rgb(140, 140, 140), Rgb(161, 161, 161),
                Rgb(47, 47, 47), Rgb(126, 126, 126), Rgb(133, 133, 133),
                Rgb(60, 60, 60), Rgb(11, 11, 11)>>

\* floor((2^32 - 1) / s) as a u32, for 0 < s < 2^16
MaxU32Div(s) ==
    IF s < 32768
    THEN U32(65535 \div s, (((65535 % s) * 65536) + 65535) \div s)
    ELSE U32(1, ((65536 * (65535 - s)) + 65535) \div s)

\* width x height is at most 2^32 - 1
ProductFits(w, h) ==
    IF w = Zero32 \/ h = Zero32 THEN TRUE
    ELSE IF w[1] # 0 /\ h[1] # 0 THEN FALSE
    ELSE LET s == IF w[1] = 0 THEN w[2] ELSE h[2]
             b == IF w[1] = 0 THEN h ELSE w
             q == MaxU32Div(s)
         IN b[1] < q[1] \/ (b[1] = q[1] /\ b[2] <= q[2])

\* C5 (overflow guard): when width x height does not fit 32 bits the run never
\* leaves main except into the rejection, where no generator has been created
\* and no buffer allocated; when the product fits the run is never rejected and
\* the guard hands it on to the generation.
C5_OverflowGuard ==
    /\ ~ProductFits(width, height) =>
           /\ pc \in {"main", "rejected"}
           /\ master_rng = NoGen /\ sf_self = NoGen /\ rngs = <<>>
           /\ rows = <<>> /\ writers = <<>> /\ raw_pixels = <<>>
    /\ ProductFits(width, height) => pc # "rejected"
    /\ pc = "rejected" => ~ProductFits(width, height)

C5_Witness ==
    /\ pc = "rejected"
    /\ width = U32(65535, 65535)
    /\ height = U32(0, 2)
    /\ master_rng = NoGen
    /\ rows = <<>>

\* C8 (grayscale channel equality): in Grayscale mode every written entry of the
\* buffer has R = G = B, and the entry a row task has just written carries the
\* task's raw draw modulo 256, which is the draw truncated to its low 8 bits.
C8_GrayscaleChannels ==
    (genmode = "Grayscale" /\ Filling) =>
        /\ \A s \in DOMAIN writers :
               Len(writers[s]) > 0 =>
                   /\ rows[s + 1][1] = rows[s + 1][2]
                   /\ rows[s + 1][2] = rows[s + 1][3]
        /\ \A i \in DOMAIN pos :
               pos[i] > 0 =>
                   LET v == rows[i * W + pos[i]][1]
                   IN /\ v = (((num[i][1] % 256) * (65536 % 256)) + num[i][2]) % 256
                      /\ v = num[i][2] % 256
                      /\ rows[i * W + pos[i]] = Rgb(v, v, v)

\* a draw whose bytes 1 and 2 differ from its byte 0 has been written
C8_Witness ==
    /\ genmode = "Grayscale"
    /\ pc = "returned"
    /\ seed = U32(0, 42)
    /\ W = 2
    /\ H = 1
    /\ num[0][2] \div 256 # num[0][2] % 256
    /\ rows[2] = Rgb(140, 140, 140)

\* bit i (0 = least significant) of a u32
Bit(v, i) == IF i < 16 THEN (v[2] \div Pow2(i)) % 2 ELSE (v[1] \div Pow2(i - 16)) % 2

\* The three shift-xor rounds of xorshift32 on the 32 bits of v: bit i of the
\* result of each round is bit i of its input, flipped by the input's bit i-13,
\* then i+17, then i-5, where that bit exists.
XorShiftBits(v) ==
    LET b0 == [i \in 0..31 |-> Bit(v, i)]
        b1 == [i \in 0..31 |-> (b0[i] + (IF i >= 13 THEN b0[i - 13] ELSE 0)) % 2]
        b2 == [i \in 0..31 |-> (b1[i] + (IF i + 17 <= 31 THEN b1[i + 17] ELSE 0)) % 2]
    IN [i \in 0..31 |-> (b2[i] + (IF i >= 5 THEN b2[i - 5] ELSE 0)) % 2]

\* C6 (generator step): next() leaves the state x ^ (x << 13), then ^ (x >> 17),
\* then ^ (x << 5), all on 32 bits, and returns that new state; from state 1 one
\* next() gives 270369; a generator advanced by step_forward calls that add up to
\* n steps is in the state n successive next() calls reach, so step_forward(0)
\* changes nothing and step_forward(a+b) is step_forward(a) then step_forward(b).
C6_GeneratorStep ==
    /\ ret # NoGen => ret = gen
    /\ calls = 1 => \A i \in 0..31 : Bit(gen, i) = XorShiftBits(gen0)[i]
    /\ (calls = 1 /\ gen0 = U32(0, 1)) => gen = U32(4, 8225)
    /\ fwd_steps = 0 => fwd = gen0
    /\ fwd_steps = calls => fwd = gen
    /\ (fwd_steps = 1 /\ gen0 = U32(0, 1)) => fwd = U32(4, 8225)

\* from state 1: one next() call, and step_forward calls adding up to three steps
C6_Witness ==
    /\ gen0 = U32(0, 1)
    /\ calls = 3
    /\ fwd_steps = 3
    /\ ret = gen
    /\ fwd = gen
    /\ gen = U32(40396, 43205)

\* C7 (colorful byte extraction): pixel_colorful(v) has R = v mod 256,
\* G = (v div 2^8) mod 256, B = (v div 2^16) mod 256; two raw values that agree
\* in their low three bytes give the same pixel; 0x12345678 gives
\* R = 0x78, G = 0x56, B = 0x34.
C7_ColorfulBytes ==
    /\ px_a # NoPixel => px_a = Rgb(raw_a[2] % 256, raw_a[2] \div 256, raw_a[1] % 256)
    /\ px_b # NoPixel => px_b = Rgb(raw_b[2] % 256, raw_b[2] \div 256, raw_b[1] % 256)
    /\ (/\ px_a # NoPixel
        /\ px_b # NoPixel
        /\ raw_a[2] = raw_b[2]
        /\ raw_a[1] % 256 = raw_b[1] % 256) => px_a = px_b
    /\ (px_a # NoPixel /\ raw_a = U32(4660, 22136)) => px_a = Rgb(120, 86, 52)

\* 0x12345678 and 0xFF345678 encode to the same pixel
C7_Witness ==
    /\ raw_a = U32(4660, 22136)
    /\ raw_b = U32(65332, 22136)
    /\ px_a = Rgb(120, 86, 52)
    /\ px_b = px_a

\* seed * 0xDEADBEEF + 0xCAFEBABE (mod 2^32)
SeedOfMaster == WrappingAdd(WrappingMul(seed, U32(57005, 48879)), U32(51966, 47806))

\* C9 as claimed (non-zero generator state): no generator of the run, the master
\* or a row generator, in warm-up, scheduling or fill, ever holds state 0.
C9_NeverZero ==
    /\ master_rng # Zero32
    /\ sf_self # Zero32
    /\ \A i \in DOMAIN rngs : rngs[i] # Zero32
    /\ \A i \in DOMAIN rng : rng[i] # Zero32

\* C9 as amended: a generator of the run holds state 0 exactly when the value it
\* was constructed from is 0, at every step of its warm-up, of the scheduling
\* and of the fill; the master is constructed from 0 exactly for the seed
\* 0xC2656EDE.
C9_ZeroOnlyFromZeroSeed ==
    /\ SeedOfMaster = Zero32 <=> seed = U32(49765, 28382)
    /\ pc = "step_master" => (sf_self = Zero32 <=> SeedOfMaster = Zero32)
    /\ master_rng # NoGen => (master_rng = Zero32 <=> SeedOfMaster = Zero32)
    /\ pc = "step_row" => (sf_self = Zero32 <=> row_seeds[Len(row_seeds)] = Zero32)
    /\ \A i \in DOMAIN rngs : rngs[i] = Zero32 <=> row_seeds[i] = Zero32
    /\ \A i \in DOMAIN rng : rng[i] = Zero32 <=> row_seeds[i + 1] = Zero32

\* seed 0xE59AB4D1: row 0 is constructed from 0 and stays all zero, while the
\* master and row 1 never hold 0
C9_Witness ==
    /\ pc = "returned"
    /\ seed = U32(58778, 46289)
    /\ H = 2
    /\ W = 4
    /\ row_seeds[1] = Zero32
    /\ rng[0] = Zero32
    /\ row_seeds[2] # Zero32
    /\ rng[1] # Zero32
    /\ master_rng # Zero32
    /\ \A k \in 1..4 : rows[k] = Rgb(0, 0, 0)

\* C10 as claimed (totality of the fill): for dimensions that pass the guard,
\* width = 0 and height = 0 included, generate_random_pixels does not abort, it
\* returns width x height pixels, the flattened buffer has width x height x 3
\* bytes and the shape-mismatch error is not reached.
C10_FillTotal ==
    /\ pc # "panicked"
    /\ pc # "shape_error"
    /\ pc \in {"returned", "converted"} => Len(rows) = W * H
    /\ pc = "converted" => Len(raw_pixels) = W * H * 3

====
